---- MODULE Spec2Model ----
(***************************************************************************)
(* Deseasonaliser (sktime/transformers/detrend/_deseasonalise.py): one     *)
(* transformer instance, its three public operations fit, transform and    *)
(* inverse_transform, and the helpers they call.  Series values are exact  *)
(* rationals (numerator/denominator records, denominator 0 for the IEEE    *)
(* non-finite values inf and nan), so equalities are "up to floating-point *)
(* rounding".  A series is a record [index, values] of equal length.       *)
(***************************************************************************)
EXTENDS Integers, Sequences, FiniteSets, TLC

\* ------------------------------------------------------------------ bounds
MaxSp == 3            \* sp ranges over 1..MaxSp
MaxFitStart == 1      \* fit series start at index 0..MaxFitStart
MaxStart == 3         \* query series start at index -MaxFitStart..MaxStart
MaxQueryLen == 4      \* query series have 1..MaxQueryLen observations
MaxCycles == 2        \* whole cycles a query start is moved by when compared

\* Python's None for the fields that hold a sequence or an optional value.
None == <<>>

\* ------------------------------------------------- exact float stand-in
RECURSIVE GCD(_, _)
GCD(a, b) == IF b = 0 THEN a ELSE GCD(b, a % b)

Abs(x) == IF x < 0 THEN -x ELSE x
Sign(x) == IF x < 0 THEN -1 ELSE IF x = 0 THEN 0 ELSE 1

NaN == [n |-> 0, d |-> 0]
Inf(s) == [n |-> s, d |-> 0]
IsFinite(a) == a.d # 0
IsNaN(a) == a.d = 0 /\ a.n = 0

Rat(n, d) ==
    LET g == GCD(Abs(n), Abs(d))
    IN  [n |-> (Sign(d) * n) \div g, d |-> Abs(d) \div g]

Num(k) == [n |-> k, d |-> 1]

FAdd(a, b) ==
    IF IsFinite(a) /\ IsFinite(b) THEN Rat(a.n * b.d + b.n * a.d, a.d * b.d)
    ELSE IF IsNaN(a) \/ IsNaN(b) THEN NaN
    ELSE IF ~IsFinite(a) /\ ~IsFinite(b) /\ a.n # b.n THEN NaN
    ELSE IF ~IsFinite(a) THEN a ELSE b

FNeg(a) == [n |-> -a.n, d |-> a.d]

FSub(a, b) == FAdd(a, FNeg(b))

FMul(a, b) ==
    IF IsFinite(a) /\ IsFinite(b) THEN Rat(a.n * b.n, a.d * b.d)
    ELSE IF IsNaN(a) \/ IsNaN(b) \/ a.n = 0 \/ b.n = 0 THEN NaN
    ELSE Inf(Sign(a.n) * Sign(b.n))

FDiv(a, b) ==
    IF IsFinite(a) /\ IsFinite(b) /\ b.n # 0 THEN Rat(a.n * b.d, a.d * b.n)
    ELSE IF IsNaN(a) \/ IsNaN(b) THEN NaN
    ELSE IF IsFinite(b) /\ b.n = 0
         THEN (IF a.n = 0 THEN NaN ELSE Inf(Sign(a.n)))
    ELSE IF IsFinite(a) THEN Num(0)
    ELSE NaN

\* == on floats: nan compares unequal to everything
FEq(a, b) == ~IsNaN(a) /\ ~IsNaN(b) /\ a = b

\* --------------------------------------------------------------- inputs
Models == {"additive", "multiplicative"}

Bases == {<<0, 3>>, <<2, 1, 4>>}

Tile(base, n) == [i \in 1..n |-> Num(base[((i - 1) % Len(base)) + 1])]

MkSeries(start, n, base) ==
    [index |-> [i \in 1..n |-> start + i - 1], values |-> Tile(base, n)]

QueryBases == {<<2, 1, 4>>}

\* lengths of fit series: one observation, and two of the longest cycles
FitLens == {1, 2 * MaxSp}

FitSeries ==
    {MkSeries(s, n, b) : s \in 0..MaxFitStart, n \in FitLens, b \in Bases}

Queries ==
    {MkSeries(s, n, b) : s \in (-MaxFitStart)..MaxStart, n \in 1..MaxQueryLen,
                         b \in QueryBases}

\* ---------------------------------------------------------------- state
VARIABLES sp, model, test_seasonality,
          oh_index, seasonal, is_seasonal, is_fitted,
          op, arg, exc, ret, aligned, seasonal_src, tested, orig, was_fitted

config == <<sp, model, test_seasonality>>
fitted_state == <<oh_index, seasonal, is_seasonal, is_fitted>>
call == <<op, arg, exc, ret, aligned, seasonal_src, tested, orig, was_fitted>>
vars == <<sp, model, test_seasonality, oh_index, seasonal, is_seasonal,
          is_fitted, op, arg, exc, ret, aligned, seasonal_src, tested, orig, was_fitted>>

Self ==
    [sp |-> sp, model |-> model, test_seasonality |-> test_seasonality,
     oh_index |-> oh_index, seasonal |-> seasonal,
     is_seasonal |-> is_seasonal, is_fitted |-> is_fitted]

\* Deseasonaliser.__init__
init(p, m, t) ==
    [sp |-> p, model |-> m, test_seasonality |-> t,
     oh_index |-> None, seasonal |-> None, is_seasonal |-> None,
     is_fitted |-> FALSE]

\* ------------------------------------------------------ collaborators
check_y(y) == y

check_time_index(index) == index

\* sktime.utils.seasonality.seasonality_test: a deterministic judgment of
\* the series at the given period (here: it repeats at p and is not constant).
seasonality_test(y, p) ==
    /\ \A i \in 1..(Len(y.values) - p) : y.values[i + p] = y.values[i]
    /\ \E i \in 1..Len(y.values) : y.values[i] # y.values[1]

\* statsmodels seasonal_decompose raises ValueError on fewer than two
\* complete cycles and on non-positive values in the multiplicative model.
decompose_raises(y, m, p) ==
    \/ Len(y.values) < 2 * p
    \/ m = "multiplicative" /\ \E i \in 1..Len(y.values) : y.values[i].n <= 0

\* .seasonal of the decomposition: as long as y, repeating one cycle of
\* length p, a deterministic function of the series, period and model.
seasonal_decompose(y, m, p) ==
    [i \in 1..Len(y.values) |->
        IF m = "additive"
        THEN FSub(y.values[((i - 1) % p) + 1], y.values[1])
        ELSE FDiv(y.values[((i - 1) % p) + 1], y.values[1])]

\* .iloc[:k]
iloc_to(s, k) == SubSeq(s, 1, IF k < Len(s) THEN k ELSE Len(s))

np_zeros(k) == [i \in 1..k |-> Num(0)]
np_ones(k) == [i \in 1..k |-> Num(1)]

\* np.roll(a, shift): element i moves to position (i + shift) mod len(a)
np_roll(a, shift) == [j \in 1..Len(a) |-> a[((j - 1 - shift) % Len(a)) + 1]]

\* np.resize(a, n): a repeated cyclically and cut to n elements
np_resize(a, n) == [j \in 1..n |-> a[((j - 1) % Len(a)) + 1]]

\* BaseSeriesToSeriesTransformer._check_is_fitted
check_is_fitted(self) == self.is_fitted

\* -------------------------------------------------------------- methods
\* Deseasonaliser._set_oh_index
set_oh_index(self, y) == [self EXCEPT !.oh_index = check_time_index(y.index)]

\* _check_is_seasonal without its sp == 1 branch
check_is_seasonal_no_sp1(self, y) ==
    IF self.test_seasonality
    THEN [self |-> [self EXCEPT !.is_seasonal = <<seasonality_test(y, self.sp)>>],
          tested |-> TRUE]
    ELSE [self |-> [self EXCEPT !.is_seasonal = <<TRUE>>], tested |-> FALSE]

\* Deseasonaliser._check_is_seasonal; tested records whether the
\* seasonality test was called.
check_is_seasonal(self, y) ==
    IF self.sp = 1
    THEN [self |-> [self EXCEPT !.is_seasonal = <<FALSE>>], tested |-> FALSE]
    ELSE IF self.test_seasonality
    THEN [self |-> [self EXCEPT !.is_seasonal = <<seasonality_test(y, self.sp)>>],
          tested |-> TRUE]
    ELSE [self |-> [self EXCEPT !.is_seasonal = <<TRUE>>], tested |-> FALSE]

\* fit that keeps the index of an earlier fit
fit_keeps_index(self, y0) ==
    LET y == check_y(y0)
        s1 == IF self.oh_index = None THEN set_oh_index(self, y) ELSE self
        c == check_is_seasonal(s1, y)
        s2 == c.self
    IN  IF s2.is_seasonal = <<TRUE>>
        THEN IF decompose_raises(y, s2.model, s2.sp)
             THEN [self |-> s2, exc |-> "ValueError", tested |-> c.tested,
                   wrote |-> "nothing"]
             ELSE [self |-> [s2 EXCEPT
                              !.seasonal = iloc_to(seasonal_decompose(y, s2.model, s2.sp), s2.sp),
                              !.is_fitted = TRUE],
                   exc |-> "none", tested |-> c.tested, wrote |-> "decompose"]
        ELSE [self |-> [s2 EXCEPT
                         !.seasonal = IF s2.model = "additive"
                                      THEN np_zeros(s2.sp) ELSE np_ones(s2.sp),
                         !.is_fitted = TRUE],
              exc |-> "none", tested |-> c.tested, wrote |-> "neutral"]

\* Deseasonaliser.fit: the instance as the call leaves it, the exception it
\* raises ("none" when it returns) and which assignment of _seasonal ran.
fit(self, y0) ==
    LET y == check_y(y0)
        s1 == set_oh_index(self, y)
        c == check_is_seasonal(s1, y)
        s2 == c.self
    IN  IF s2.is_seasonal = <<TRUE>>
        THEN IF decompose_raises(y, s2.model, s2.sp)
             THEN [self |-> s2, exc |-> "ValueError", tested |-> c.tested,
                   wrote |-> "nothing"]
             ELSE [self |-> [s2 EXCEPT
                              !.seasonal = iloc_to(seasonal_decompose(y, s2.model, s2.sp), s2.sp),
                              !.is_fitted = TRUE],
                   exc |-> "none", tested |-> c.tested, wrote |-> "decompose"]
        ELSE [self |-> [s2 EXCEPT
                         !.seasonal = IF s2.model = "additive"
                                      THEN np_zeros(s2.sp) ELSE np_ones(s2.sp),
                         !.is_fitted = TRUE],
              exc |-> "none", tested |-> c.tested, wrote |-> "neutral"]

\* shift negated after the modulo instead of before it
align_shift_neg_after_mod(self, y) ==
    -((y.index[1] - self.oh_index[1]) % self.sp)

\* shift of Deseasonaliser._align_seasonal
align_shift(self, y) == (-(y.index[1] - self.oh_index[1])) % self.sp

\* _align_seasonal rolling the cycle the other way
align_seasonal_roll_back(self, y) ==
    np_resize(np_roll(self.seasonal, -align_shift(self, y)), Len(y.values))

\* Deseasonaliser._align_seasonal
align_seasonal(self, y) ==
    np_resize(np_roll(self.seasonal, align_shift(self, y)), Len(y.values))

\* Deseasonaliser._detrend
detrend(self, y, s) ==
    [index |-> y.index,
     values |-> [i \in 1..Len(y.values) |->
                    IF self.model = "additive"
                    THEN FSub(y.values[i], s[i]) ELSE FDiv(y.values[i], s[i])]]

\* _retrend with _detrend's arithmetic
retrend_as_detrend(self, y, s) ==
    [index |-> y.index,
     values |-> [i \in 1..Len(y.values) |->
                    IF self.model = "additive"
                    THEN FSub(y.values[i], s[i]) ELSE FDiv(y.values[i], s[i])]]

\* Deseasonaliser._retrend
retrend(self, y, s) ==
    [index |-> y.index,
     values |-> [i \in 1..Len(y.values) |->
                    IF self.model = "additive"
                    THEN FAdd(y.values[i], s[i]) ELSE FMul(y.values[i], s[i])]]

\* transform without the fitted guard: an unfitted instance returns y
transform_unguarded(self, y0) ==
    IF ~check_is_fitted(self)
    THEN [exc |-> "none", ret |-> check_y(y0), aligned |-> None]
    ELSE LET y == check_y(y0)
             s == align_seasonal(self, y)
         IN  [exc |-> "none", ret |-> detrend(self, y, s), aligned |-> s]

\* Deseasonaliser.transform: exception, returned series and the local
\* aligned seasonal vector.
transform(self, y0) ==
    IF ~check_is_fitted(self)
    THEN [exc |-> "NotFittedError", ret |-> None, aligned |-> None]
    ELSE LET y == check_y(y0)
             s == align_seasonal(self, y)
         IN  [exc |-> "none", ret |-> detrend(self, y, s), aligned |-> s]

\* Deseasonaliser.inverse_transform
inverse_transform(self, y0) ==
    IF ~check_is_fitted(self)
    THEN [exc |-> "NotFittedError", ret |-> None, aligned |-> None]
    ELSE LET y == check_y(y0)
             s == align_seasonal(self, y)
         IN  [exc |-> "none", ret |-> retrend(self, y, s), aligned |-> s]

\* -------------------------------------------------------------- actions
Init ==
    /\ sp \in 1..MaxSp
    /\ model \in Models
    /\ test_seasonality \in BOOLEAN
    /\ oh_index = init(sp, model, test_seasonality).oh_index
    /\ seasonal = init(sp, model, test_seasonality).seasonal
    /\ is_seasonal = init(sp, model, test_seasonality).is_seasonal
    /\ is_fitted = init(sp, model, test_seasonality).is_fitted
    /\ op = "init"
    /\ arg = None
    /\ exc = "none"
    /\ ret = None
    /\ aligned = None
    /\ seasonal_src = None
    /\ tested = FALSE
    /\ orig = None
    /\ was_fitted = FALSE

\* a call fit(y)
FitCall(y) ==
    \E r \in {fit(Self, y)} :
        /\ oh_index' = r.self.oh_index
        /\ seasonal' = r.self.seasonal
        /\ is_seasonal' = r.self.is_seasonal
        /\ is_fitted' = r.self.is_fitted
        /\ op' = "fit"
        /\ arg' = y
        /\ exc' = r.exc
        /\ ret' = None
        /\ aligned' = None
        /\ seasonal_src' = IF r.wrote = "nothing" THEN seasonal_src
                           ELSE [by |-> r.wrote, y |-> y]
        /\ tested' = r.tested
        /\ orig' = None
        /\ was_fitted' = is_fitted
        /\ UNCHANGED config

\* transform that stores the query's index as the anchor
TransformCallStoresIndex(y) ==
    \E r \in {transform(Self, y)} :
        /\ op' = "transform"
        /\ arg' = y
        /\ exc' = r.exc
        /\ ret' = r.ret
        /\ aligned' = r.aligned
        /\ orig' = None
        /\ was_fitted' = is_fitted
        /\ oh_index' = IF is_fitted THEN y.index ELSE oh_index
        /\ UNCHANGED <<config, seasonal, is_seasonal, is_fitted, seasonal_src, tested>>

\* a call transform(y)
TransformCall(y) ==
    \E r \in {transform(Self, y)} :
        /\ op' = "transform"
        /\ arg' = y
        /\ exc' = r.exc
        /\ ret' = r.ret
        /\ aligned' = r.aligned
        /\ orig' = None
        /\ was_fitted' = is_fitted
        /\ UNCHANGED <<config, fitted_state, seasonal_src, tested>>

\* a call inverse_transform(y); orig is the series the preceding transform
\* call was given when y is what that call returned.
InverseTransformCall(y) ==
    \E r \in {inverse_transform(Self, y)} :
        /\ op' = "inverse_transform"
        /\ arg' = y
        /\ exc' = r.exc
        /\ ret' = r.ret
        /\ aligned' = r.aligned
        /\ orig' = IF op = "transform" /\ exc = "none" /\ y = ret
                   THEN arg ELSE None
        /\ was_fitted' = is_fitted
        /\ UNCHANGED <<config, fitted_state, seasonal_src, tested>>

Fit == \E y \in FitSeries : FitCall(y)

Transform == \E y \in Queries : TransformCall(y)

InverseTransform ==
    \E y \in Queries \cup (IF op = "transform" /\ exc = "none" THEN {ret} ELSE {}) :
        InverseTransformCall(y)

Next == Fit \/ Transform \/ InverseTransform

Spec == Init /\ [][Next]_vars

\* ------------------------------------------------------------ properties
Calls == {"transform", "inverse_transform"}

Neutral == IF model = "additive" THEN np_zeros(sp) ELSE np_ones(sp)

SameSeries(a, b) ==
    /\ a.index = b.index
    /\ Len(a.values) = Len(b.values)
    /\ \A i \in 1..Len(a.values) : FEq(a.values[i], b.values[i])

\* C1: a fit call that fails in seasonal extraction leaves the instance
\* Unfitted, whether it was Unfitted or Fitted before, so that a transform
\* or inverse_transform called right after it raises the not-fitted error.
C1_FailedFitLeavesUnfitted ==
    (op = "fit" /\ exc = "ValueError") => ~is_fitted

\* C2: no partial updates: a fit call that fails changes none of the stored
\* fit-index anchor, is-seasonal flag and seasonal cycle.
C2_FailedFitChangesNothing ==
    [][(op' = "fit" /\ exc' # "none")
          => UNCHANGED <<oh_index, is_seasonal, seasonal>>]_vars

\* C3: on an Unfitted instance transform and inverse_transform raise the
\* not-fitted error, return nothing, align nothing and leave the stored
\* fields unchanged; on a Fitted instance they never raise that error.
C3_NotFittedGuard ==
    [][op' \in Calls =>
          IF ~is_fitted
          THEN /\ exc' = "NotFittedError"
               /\ ret' = None
               /\ aligned' = None
               /\ UNCHANGED fitted_state
          ELSE exc' # "NotFittedError"]_vars

C3_Witness ==
    /\ op = "inverse_transform"
    /\ exc = "NotFittedError"
    /\ ~is_fitted
    /\ oh_index # None

\* C4: round trip: inverse_transform applied to what the preceding
\* transform returned for y gives y back, values and index, in the additive
\* model always and in the multiplicative model when no value of the stored
\* cycle is zero.
C4_RoundTrip ==
    (/\ op = "inverse_transform"
     /\ exc = "none"
     /\ orig # None
     /\ \/ model = "additive"
        \/ \A i \in 1..Len(seasonal) : seasonal[i].n # 0)
    => SameSeries(ret, orig)

C4_Witness ==
    /\ op = "inverse_transform"
    /\ exc = "none"
    /\ orig # None
    /\ model = "multiplicative"
    /\ \E i \in 1..Len(seasonal) : seasonal[i] # Num(1)
    /\ orig.index[1] < oh_index[1]
    /\ arg # orig

\* C5: in every Fitted state the stored cycle has exactly sp entries: when
\* the is-seasonal flag is set it was taken from a decomposition and is the
\* first sp entries of its seasonal output, and when the flag is not set it
\* is sp zeros (additive) or sp ones (multiplicative).
C5_CycleLengthAndContent ==
    is_fitted =>
        /\ Len(seasonal) = sp
        /\ IF is_seasonal = <<TRUE>>
           THEN /\ seasonal_src.by = "decompose"
                /\ seasonal = SubSeq(seasonal_decompose(seasonal_src.y, model, sp), 1, sp)
           ELSE seasonal = Neutral

\* the length part of C5 alone
C5_CycleLength == is_fitted => Len(seasonal) = sp

\* C6: with sp = 1 every successful fit decides not seasonal without calling
\* the seasonality test and stores the neutral cycle, and every transform
\* and inverse_transform returns its argument.
C6_PeriodOneIsIdentity ==
    sp = 1 =>
        /\ (op = "fit" /\ exc = "none") =>
              /\ is_seasonal = <<FALSE>>
              /\ ~tested
              /\ seasonal = (IF model = "additive" THEN <<Num(0)>> ELSE <<Num(1)>>)
        /\ (op \in Calls /\ exc = "none") => SameSeries(ret, arg)

C6_Witness ==
    /\ sp = 1
    /\ test_seasonality
    /\ model = "multiplicative"
    /\ op = "transform"
    /\ exc = "none"
    /\ Len(arg.values) > 1

\* C7: the aligned seasonal vector of a call on a query of n observations
\* starting at q0 has n entries, and entry i is c[(q0 - f0 + i) mod sp] for
\* the stored cycle c and the first fit index f0.
C7_AlignedVector ==
    (op \in Calls /\ exc = "none") =>
        /\ Len(aligned) = Len(arg.values)
        /\ \A i \in 0..(Len(arg.values) - 1) :
              aligned[i + 1] = seasonal[((arg.index[1] - oh_index[1] + i) % sp) + 1]

C7_Witness ==
    /\ op = "transform"
    /\ exc = "none"
    /\ sp = 3
    /\ Len(arg.values) = 4
    /\ arg.index[1] < oh_index[1]
    /\ (arg.index[1] - oh_index[1]) % sp = 1
    /\ seasonal[1] # seasonal[2]
    /\ seasonal[2] # seasonal[3]
    /\ seasonal[1] # seasonal[3]

\* the query of a call moved by k whole cycles
Moved(y, k) ==
    [index |-> [i \in 1..Len(y.index) |-> y.index[i] + k * sp], values |-> y.values]

\* C8: the shift of a call is in 0..sp-1 wherever the query starts; moving
\* the query start by whole cycles gives the same shift and the same aligned
\* vector; a query starting one cycle after the fit start has shift 0.
C8_ShiftRangeAndPeriod ==
    (op \in Calls /\ exc = "none") =>
        /\ align_shift(Self, arg) \in 0..(sp - 1)
        /\ \A k \in (-MaxCycles)..MaxCycles :
              /\ align_shift(Self, Moved(arg, k)) = align_shift(Self, arg)
              /\ align_seasonal(Self, Moved(arg, k)) = aligned
        /\ arg.index[1] = oh_index[1] + sp => align_shift(Self, arg) = 0

C8_Witness ==
    /\ op \in Calls
    /\ exc = "none"
    /\ sp > 1
    /\ arg.index[1] = oh_index[1] + sp
    /\ seasonal[1] # seasonal[2]

\* C9: transform and inverse_transform leave the configuration, the anchor,
\* the cycle, the is-seasonal flag and the fitted flag unchanged.
C9_CallsAreReadOnly ==
    [][op' \in Calls => UNCHANGED <<config, fitted_state>>]_vars

C9_Witness ==
    /\ op = "transform"
    /\ exc = "none"
    /\ is_fitted
    /\ arg.index # oh_index

\* C10: a successful fit(s) leaves exactly the anchor, flag, cycle and
\* fitted flag that a newly constructed instance of the same configuration
\* has after fit(s), whatever calls came before.
C10_FitOverwrites ==
    (op = "fit" /\ exc = "none") =>
        LET f == fit(init(sp, model, test_seasonality), arg)
        IN  /\ f.exc = "none"
            /\ oh_index = f.self.oh_index
            /\ is_seasonal = f.self.is_seasonal
            /\ seasonal = f.self.seasonal
            /\ is_fitted = f.self.is_fitted
            /\ is_fitted

C10_Witness ==
    /\ op = "fit"
    /\ exc = "none"
    /\ was_fitted
    /\ is_seasonal = <<TRUE>>

====
